---- MODULE Spec2Model ----
(***************************************************************************)
(* Model of src/main.py: the batch pipeline that loads JSON records,       *)
(* embeds each one through the OpenAI embeddings API and inserts it into   *)
(* the Supabase "documents" table, together with the provisioning checks   *)
(* of main() and the search path.  Every remote call is modelled as two    *)
(* steps (request issued, response received) so that the order of the      *)
(* calls and the number of requests in flight are observable.              *)
(***************************************************************************)
EXTENDS Naturals, Integers, Sequences, FiniteSets, TLC

\* ---- bounds of the model ----
MaxDocs == 2
MaxBatch == 2

\* ---- constants of the program ----
EmbDim == 1536
MainBatchSize == 5
DefaultMatchCount == 5
MainMatchCount == 3

EnvNames == {"SUPABASE_URL", "SUPABASE_ANON_KEY", "OPENAI_API_KEY"}

\* Shapes of one element of the loaded JSON array.  "object" is a JSON
\* object; "objectBadNested" is a JSON object whose nested list ("images")
\* holds entries that lack the sub-keys an aggregation would read; "string"
\* is a JSON string containing none of the recognised key names; "number"
\* is a JSON number.
DocKinds == {"object", "objectBadNested", "string", "number"}

RECURSIVE SeqsUpTo(_, _)
SeqsUpTo(S, n) ==
    IF n = 0 THEN {<<>>}
    ELSE LET shorter == SeqsUpTo(S, n - 1)
         IN  shorter \cup {Append(s, x) : s \in {t \in shorter : Len(t) = n - 1}, x \in S}

\* What json.load() can find at the path: no file, a file that is not JSON,
\* a JSON scalar, a single JSON object, or a JSON array.
Files ==
    {[kind |-> k, docs |-> <<>>] : k \in {"missing", "invalid", "scalar"}}
    \cup {[kind |-> "object", docs |-> <<d>>] : d \in {"object", "objectBadNested"}}
    \cup {[kind |-> "array", docs |-> s] : s \in SeqsUpTo(DocKinds, MaxDocs)}

NoEmbedding == [src |-> -1, len |-> 0]
NoFile == [kind |-> "none", docs |-> <<>>]
\* Marker of an argument the caller left out.
Omitted == -1
NoArgs == [match_count |-> Omitted, filter |-> "None"]

Ev(e, d, emb) == [ev |-> e, doc |-> d, emb |-> emb]

VARIABLES
    pc,                  \* position of the single thread of control
    entry,               \* function the run entered: main, process, search
    env,                 \* environment variables that are set
    file,                \* content found by load_json_file
    documents,           \* list returned by load_json_file
    loaded,              \* load_json_file returned normally
    batch_size,
    i, j, batch,         \* loop variables of process_and_insert_documents
    batches,             \* number of batches started
    successful_inserts,
    failed_inserts,
    embedding,           \* local of the per-record body
    metadata,            \* local of the per-record body
    table,               \* rows of the remote documents table
    nextId,              \* next value of the BIGSERIAL id
    test_id,             \* id of the connectivity-test row
    inflight,            \* remote requests issued and not yet answered
    log,                 \* history of calls and per-record steps
    retval,              \* value returned by process_and_insert_documents
    error,               \* exception that ended the run, or "none"
    ddlEmitted,          \* create_table_sql() text was printed
    search_args,         \* arguments of search_documents
    rpc_params           \* parameters handed to the match_docs procedure

vars == <<pc, entry, env, file, documents, loaded, batch_size, i, j, batch,
          batches, successful_inserts, failed_inserts, embedding, metadata,
          table, nextId, test_id, inflight, log, retval, error, ddlEmitted,
          search_args, rpc_params>>

procVars == <<documents, loaded, batch_size, i, j, batch, batches,
              successful_inserts, failed_inserts, embedding, metadata, file, retval>>
storeVars == <<table, nextId, test_id>>
mainVars == <<env, ddlEmitted>>
searchVars == <<search_args, rpc_params>>

Init ==
    /\ pc = "start"
    /\ entry = "none"
    /\ env = [n \in EnvNames |-> FALSE]
    /\ file = NoFile
    /\ documents = <<>>
    /\ loaded = FALSE
    /\ batch_size = 0
    /\ i = 0
    /\ j = 0
    /\ batch = <<>>
    /\ batches = 0
    /\ successful_inserts = 0
    /\ failed_inserts = 0
    /\ embedding = NoEmbedding
    /\ metadata = "none"
    /\ table = {}
    /\ nextId = 1
    /\ test_id = 0
    /\ inflight = {}
    /\ log = <<>>
    /\ retval = <<>>
    /\ error = "none"
    /\ ddlEmitted = FALSE
    /\ search_args = NoArgs
    /\ rpc_params = [query_embedding |-> NoEmbedding, match_count |-> 0, filter |-> "None"]

\* ---- helpers ----

Min(a, b) == IF a < b THEN a ELSE b

SliceShort(s, lo, hi) == SubSeq(s, lo + 1, Min(hi, Len(s)) - 1)

\* Python's documents[lo:hi] on a list (0-based, hi exclusive, clipped).
Slice(s, lo, hi) == SubSeq(s, lo + 1, Min(hi, Len(s)))

\* A remote request is issued: it is recorded and stays in flight until the
\* response arrives.
Issue(e, d, emb) ==
    /\ inflight' = inflight \cup {Ev(e, d, emb)}
    /\ log' = Append(log, Ev(e, d, emb))

\* The request the thread is waiting on.
Pending == CHOOSE r \in inflight : TRUE

\* An exception leaves the entered function: main() catches everything at
\* its top level and ends; a function called directly raises to its caller.
Propagate(err) ==
    /\ error' = err
    /\ pc' = IF entry = "main" THEN "done" ELSE "raised"

\* ---- pure functions ----

\* extract_text_content: membership tests and subscripting on the record.
\* A JSON object yields a summary; a string holding no key name passes
\* every "in" test and yields ""; on a number the first "in" test raises.
extract_text_content(doc) ==
    CASE doc \in {"object", "objectBadNested"} -> [raised |-> FALSE, text |-> "summary"]
      [] doc = "string" -> [raised |-> FALSE, text |-> ""]
      [] OTHER -> [raised |-> TRUE, text |-> "TypeError"]

create_metadata_aggregating(doc) ==
    CASE doc = "object" -> [raised |-> FALSE, document_type |-> "product", nested |-> "copied"]
      [] OTHER -> [raised |-> TRUE, document_type |-> "none", nested |-> "none"]

\* create_metadata: json_doc.get(...) on the record; the nested list is
\* copied verbatim and only its length is computed, so its entries are
\* never inspected.  A record that is not a mapping has no .get.
create_metadata(doc) ==
    CASE doc = "object" -> [raised |-> FALSE, document_type |-> "product", nested |-> "copied"]
      [] doc = "objectBadNested" -> [raised |-> FALSE, document_type |-> "product", nested |-> "copied"]
      [] OTHER -> [raised |-> TRUE, document_type |-> "none", nested |-> "none"]

\* load_json_file: the list of records, or the exception raised.
load_json_file(f) ==
    CASE f.kind = "object" -> [raised |-> "none", docs |-> f.docs]
      [] f.kind = "array" -> [raised |-> "none", docs |-> f.docs]
      [] f.kind = "scalar" -> [raised |-> "ValueError", docs |-> <<>>]
      [] f.kind = "missing" -> [raised |-> "FileNotFoundError", docs |-> <<>>]
      [] OTHER -> [raised |-> "ValueError", docs |-> <<>>]

\* match_count: int = 5
match_count_of(a) == IF a = Omitted THEN DefaultMatchCount ELSE a

\* filter_metadata or {}
filter_json(f) == IF f \in {"None", "empty"} THEN "empty" ELSE f

\* ---- entry points ----

MainStart ==
    /\ pc = "start"
    /\ entry' = "main"
    /\ pc' = "initialize_clients"
    /\ UNCHANGED <<procVars, storeVars, mainVars, searchVars, inflight, log, error>>

\* process_and_insert_documents called directly with some batch_size.
CallProcess ==
    /\ pc = "start"
    /\ \E B \in 1..MaxBatch : batch_size' = B
    /\ entry' = "process"
    /\ pc' = "check_table_structure"
    /\ UNCHANGED <<documents, loaded, i, j, batch, batches, successful_inserts,
                   failed_inserts, embedding, metadata, file, retval,
                   storeVars, mainVars, searchVars, inflight, log, error>>

\* search_documents called directly; an omitted match_count takes the
\* default, an omitted filter is None.
CallSearch ==
    /\ pc = "start"
    /\ \E mc \in {Omitted, 1, MainMatchCount}, f \in {"None", "empty", "document_type"} :
          search_args' = [match_count |-> mc, filter |-> f]
    /\ entry' = "search"
    /\ pc' = "search_embed"
    /\ UNCHANGED <<procVars, storeVars, mainVars, rpc_params, inflight, log, error>>

\* ---- main: provisioning ----

InitializeClients ==
    /\ pc = "initialize_clients"
    /\ \E e \in [EnvNames -> BOOLEAN] :
          /\ env' = e
          /\ IF \A n \in EnvNames : e[n]
             THEN pc' = "check_and_create_table" /\ error' = error
             ELSE Propagate("ValueError")
    /\ UNCHANGED <<entry, procVars, storeVars, ddlEmitted, searchVars, inflight, log>>

CheckAndCreateTableCall ==
    /\ pc = "check_and_create_table"
    /\ Issue("select_call", 0, NoEmbedding)
    /\ pc' = "check_and_create_table_wait"
    /\ UNCHANGED <<entry, procVars, storeVars, mainVars, searchVars, error>>

CheckAndCreateTableReturnContinue ==
    /\ pc = "check_and_create_table_wait"
    /\ inflight' = {}
    /\ \E ok \in BOOLEAN :
          IF ok
          THEN /\ log' = Append(log, Ev("select_ok", 0, NoEmbedding))
               /\ pc' = "test_simple_insert"
               /\ UNCHANGED ddlEmitted
          ELSE /\ log' = Append(log, Ev("select_err", 0, NoEmbedding))
               /\ ddlEmitted' = TRUE
               /\ pc' = "test_simple_insert"
    /\ UNCHANGED <<entry, procVars, storeVars, env, searchVars, error>>

\* The select returned or raised; on failure main prints the DDL and returns.
CheckAndCreateTableReturn ==
    /\ pc = "check_and_create_table_wait"
    /\ inflight' = {}
    /\ \E ok \in BOOLEAN :
          IF ok
          THEN /\ log' = Append(log, Ev("select_ok", 0, NoEmbedding))
               /\ pc' = "test_simple_insert"
               /\ UNCHANGED ddlEmitted
          ELSE /\ log' = Append(log, Ev("select_err", 0, NoEmbedding))
               /\ ddlEmitted' = TRUE
               /\ pc' = "done"
    /\ UNCHANGED <<entry, procVars, storeVars, env, searchVars, error>>

\* test_data holds content and metadata only.
TestInsertCall ==
    /\ pc = "test_simple_insert"
    /\ Issue("test_insert_call", 0, NoEmbedding)
    /\ pc' = "test_simple_insert_wait"
    /\ UNCHANGED <<entry, procVars, storeVars, mainVars, searchVars, error>>

TestInsertReturn ==
    /\ pc = "test_simple_insert_wait"
    /\ inflight' = {}
    /\ \E out \in {"row", "nodata", "raise"} :
          CASE out = "row" ->
                 /\ table' = table \cup {[id |-> nextId, doc |-> 0, emb |-> NoEmbedding]}
                 /\ nextId' = nextId + 1
                 /\ test_id' = nextId
                 /\ log' = Append(log, Ev("test_insert_ok", 0, NoEmbedding))
                 /\ pc' = IF nextId # 0 THEN "test_delete" ELSE "process_start"
            [] out = "nodata" ->
                 /\ log' = Append(log, Ev("test_insert_nodata", 0, NoEmbedding))
                 /\ pc' = "done"
                 /\ UNCHANGED storeVars
            [] OTHER ->
                 /\ log' = Append(log, Ev("test_insert_err", 0, NoEmbedding))
                 /\ pc' = "done"
                 /\ UNCHANGED storeVars
    /\ UNCHANGED <<entry, procVars, mainVars, searchVars, error>>

TestDeleteCall ==
    /\ pc = "test_delete"
    /\ Issue("test_delete_call", 0, NoEmbedding)
    /\ pc' = "test_delete_wait"
    /\ UNCHANGED <<entry, procVars, storeVars, mainVars, searchVars, error>>

\* The delete returned (the row is gone, test_simple_insert returns True)
\* or raised (caught by test_simple_insert, which returns False).
TestDeleteReturn ==
    /\ pc = "test_delete_wait"
    /\ inflight' = {}
    /\ \E ok \in BOOLEAN :
          IF ok
          THEN /\ table' = {r \in table : r.id # test_id}
               /\ log' = Append(log, Ev("test_delete_ok", 0, NoEmbedding))
               /\ pc' = "process_start"
          ELSE /\ table' = table
               /\ log' = Append(log, Ev("test_delete_err", 0, NoEmbedding))
               /\ pc' = "done"
    /\ UNCHANGED <<entry, procVars, nextId, test_id, mainVars, searchVars, error>>

\* main calls process_and_insert_documents(..., batch_size=5)
MainCallProcess ==
    /\ pc = "process_start"
    /\ batch_size' = MainBatchSize
    /\ pc' = "check_table_structure"
    /\ UNCHANGED <<entry, documents, loaded, i, j, batch, batches, successful_inserts,
                   failed_inserts, embedding, metadata, file, retval,
                   storeVars, mainVars, searchVars, inflight, log, error>>

\* ---- process_and_insert_documents ----

CheckTableStructureCall ==
    /\ pc = "check_table_structure"
    /\ Issue("select_call", 0, NoEmbedding)
    /\ pc' = "check_table_structure_wait"
    /\ UNCHANGED <<entry, procVars, storeVars, mainVars, searchVars, error>>

\* The function returns to main, or to the caller that entered it.
ReturnFromProcess == IF entry = "main" THEN "process_returned" ELSE "returned"

\* check_table_structure() is False: return 0, 0 before the file is read.
CheckTableStructureReturn ==
    /\ pc = "check_table_structure_wait"
    /\ inflight' = {}
    /\ \E ok \in BOOLEAN :
          IF ok
          THEN /\ log' = Append(log, Ev("select_ok", 0, NoEmbedding))
               /\ pc' = "load_json_file"
               /\ UNCHANGED retval
          ELSE /\ log' = Append(log, Ev("select_err", 0, NoEmbedding))
               /\ retval' = <<0, 0>>
               /\ pc' = ReturnFromProcess
    /\ UNCHANGED <<entry, documents, loaded, batch_size, i, j, batch, batches,
                   successful_inserts, failed_inserts, embedding, metadata, file,
                   storeVars, mainVars, searchVars, error>>

\* documents = load_json_file(path); its exceptions are not caught here.
LoadJsonFile ==
    /\ pc = "load_json_file"
    /\ \E f \in Files :
          /\ file' = f
          /\ IF load_json_file(f).raised = "none"
             THEN /\ documents' = load_json_file(f).docs
                  /\ loaded' = TRUE
                  /\ pc' = "for_batch"
                  /\ error' = error
             ELSE /\ Propagate(load_json_file(f).raised)
                  /\ UNCHANGED <<documents, loaded>>
    /\ i' = 0
    /\ successful_inserts' = 0
    /\ failed_inserts' = 0
    /\ UNCHANGED <<entry, batch_size, j, batch, batches, embedding, metadata, retval,
                   storeVars, mainVars, searchVars, inflight, log>>

\* for i in range(0, len(documents), batch_size): take the next slice, or
\* leave the loop.
ForBatch ==
    /\ pc = "for_batch"
    /\ IF i < Len(documents)
       THEN /\ batch' = Slice(documents, i, i + batch_size)
            /\ batches' = batches + 1
            /\ j' = 0
            /\ pc' = "for_doc"
       ELSE /\ pc' = "summary"
            /\ UNCHANGED <<batch, batches, j>>
    /\ UNCHANGED <<entry, documents, loaded, batch_size, i, successful_inserts,
                   failed_inserts, embedding, metadata, file, retval,
                   storeVars, mainVars, searchVars, inflight, log, error>>

\* doc_index = i + j + 1
DocIndex == i + j + 1

\* for j, doc in enumerate(batch): take the next record, or go to the next
\* batch.
ForDoc ==
    /\ pc = "for_doc"
    /\ IF j < Len(batch)
       THEN /\ log' = Append(log, Ev("attempt", DocIndex, NoEmbedding))
            /\ pc' = "extract_text_content"
            /\ i' = i
       ELSE /\ i' = i + batch_size
            /\ pc' = "for_batch"
            /\ log' = log
    /\ UNCHANGED <<entry, documents, loaded, batch_size, j, batch, batches,
                   successful_inserts, failed_inserts, embedding, metadata, file, retval,
                   storeVars, mainVars, searchVars, inflight, error>>

ExceptHandlerAbort(evs) ==
    /\ log' = log \o evs
    /\ failed_inserts' = failed_inserts + 1
    /\ j' = j
    /\ pc' = "summary"

\* except Exception: failed_inserts += 1; continue
ExceptHandler(evs) ==
    /\ log' = log \o evs
    /\ failed_inserts' = failed_inserts + 1
    /\ j' = j + 1
    /\ pc' = "for_doc"

\* text_content = extract_text_content(doc)
ExtractTextContent ==
    /\ pc = "extract_text_content"
    /\ IF extract_text_content(batch[j + 1]).raised
       THEN ExceptHandler(<<Ev("extract_err", DocIndex, NoEmbedding)>>)
       ELSE /\ log' = Append(log, Ev("extract_ok", DocIndex, NoEmbedding))
            /\ pc' = "generate_embedding"
            /\ UNCHANGED <<failed_inserts, j>>
    /\ UNCHANGED <<entry, documents, loaded, batch_size, i, batch, batches,
                   successful_inserts, embedding, metadata, file, retval,
                   storeVars, mainVars, searchVars, inflight, error>>

\* generate_embedding: one embeddings.create request for the text.
GenerateEmbeddingCall ==
    /\ pc = "generate_embedding"
    /\ Issue("embed_call", DocIndex, NoEmbedding)
    /\ pc' = "generate_embedding_wait"
    /\ UNCHANGED <<entry, procVars, storeVars, mainVars, searchVars, error>>

GenerateEmbeddingReturnFallback ==
    /\ pc = "generate_embedding_wait"
    /\ inflight' = {}
    /\ \E ok \in BOOLEAN :
          IF ok
          THEN /\ embedding' = [src |-> DocIndex, len |-> EmbDim]
               /\ log' = Append(log, Ev("embed_ok", DocIndex, [src |-> DocIndex, len |-> EmbDim]))
               /\ pc' = "create_metadata"
               /\ UNCHANGED <<failed_inserts, j>>
          ELSE /\ embedding' = [src |-> DocIndex, len |-> 0]
               /\ log' = Append(log, Ev("embed_err", DocIndex, NoEmbedding))
               /\ pc' = "create_metadata"
               /\ UNCHANGED <<failed_inserts, j>>
    /\ UNCHANGED <<entry, documents, loaded, batch_size, i, batch, batches,
                   successful_inserts, metadata, file, retval,
                   storeVars, mainVars, searchVars, error>>

\* The response carries the vector of the model, or the call raised: the
\* error is printed and re-raised into the per-record handler.
GenerateEmbeddingReturn ==
    /\ pc = "generate_embedding_wait"
    /\ inflight' = {}
    /\ \E ok \in BOOLEAN :
          IF ok
          THEN /\ embedding' = [src |-> DocIndex, len |-> EmbDim]
               /\ log' = Append(log, Ev("embed_ok", DocIndex, [src |-> DocIndex, len |-> EmbDim]))
               /\ pc' = "create_metadata"
               /\ UNCHANGED <<failed_inserts, j>>
          ELSE /\ ExceptHandler(<<Ev("embed_err", DocIndex, NoEmbedding)>>)
               /\ UNCHANGED embedding
    /\ UNCHANGED <<entry, documents, loaded, batch_size, i, batch, batches,
                   successful_inserts, metadata, file, retval,
                   storeVars, mainVars, searchVars, error>>

\* metadata = create_metadata(doc)
CreateMetadata ==
    /\ pc = "create_metadata"
    /\ IF create_metadata(batch[j + 1]).raised
       THEN /\ ExceptHandler(<<Ev("meta_err", DocIndex, NoEmbedding)>>)
            /\ UNCHANGED metadata
       ELSE /\ metadata' = create_metadata(batch[j + 1]).document_type
            /\ log' = Append(log, Ev("meta_ok", DocIndex, NoEmbedding))
            /\ pc' = "insert"
            /\ UNCHANGED <<failed_inserts, j>>
    /\ UNCHANGED <<entry, documents, loaded, batch_size, i, batch, batches,
                   successful_inserts, embedding, file, retval,
                   storeVars, mainVars, searchVars, inflight, error>>

InsertCallNoEmbedding ==
    /\ pc = "insert"
    /\ Issue("insert_call", DocIndex, NoEmbedding)
    /\ pc' = "insert_wait"
    /\ UNCHANGED <<entry, procVars, storeVars, mainVars, searchVars, error>>

InsertCallAsync ==
    /\ pc = "insert"
    /\ Issue("insert_call", DocIndex, embedding)
    /\ successful_inserts' = successful_inserts + 1
    /\ j' = j + 1
    /\ pc' = "for_doc"
    /\ UNCHANGED <<entry, documents, loaded, batch_size, i, batch, batches,
                   failed_inserts, embedding, metadata, file, retval,
                   storeVars, mainVars, searchVars, error>>

\* insert_data = {content, metadata, embedding}; table("documents").insert
InsertCall ==
    /\ pc = "insert"
    /\ Issue("insert_call", DocIndex, embedding)
    /\ pc' = "insert_wait"
    /\ UNCHANGED <<entry, procVars, storeVars, mainVars, searchVars, error>>

InsertOutcomeNoDataCounted(out) ==
    CASE out \in {"row", "nodata"} ->
           /\ table' = IF out = "row"
                       THEN table \cup {[id |-> nextId, doc |-> Pending.doc, emb |-> Pending.emb]}
                       ELSE table
           /\ nextId' = IF out = "row" THEN nextId + 1 ELSE nextId
           /\ log' = Append(log, Ev(IF out = "row" THEN "insert_ok" ELSE "insert_nodata",
                                    DocIndex, embedding))
           /\ successful_inserts' = successful_inserts + 1
           /\ j' = j + 1
           /\ pc' = "for_doc"
           /\ UNCHANGED failed_inserts
      [] OTHER ->
           /\ ExceptHandler(<<Ev("insert_err", DocIndex, embedding)>>)
           /\ UNCHANGED <<table, nextId, successful_inserts>>

\* if result.data and len(result.data) > 0: success; else: failure; an
\* exception of the insert goes to the per-record handler.
InsertOutcome(out) ==
    CASE out = "row" ->
           /\ table' = table \cup {[id |-> nextId, doc |-> Pending.doc, emb |-> Pending.emb]}
           /\ nextId' = nextId + 1
           /\ log' = Append(log, Ev("insert_ok", DocIndex, embedding))
           /\ successful_inserts' = successful_inserts + 1
           /\ j' = j + 1
           /\ pc' = "for_doc"
           /\ UNCHANGED failed_inserts
      [] out = "nodata" ->
           /\ log' = Append(log, Ev("insert_nodata", DocIndex, embedding))
           /\ failed_inserts' = failed_inserts + 1
           /\ j' = j + 1
           /\ pc' = "for_doc"
           /\ UNCHANGED <<table, nextId, successful_inserts>>
      [] OTHER ->
           /\ ExceptHandler(<<Ev("insert_err", DocIndex, embedding)>>)
           /\ UNCHANGED <<table, nextId, successful_inserts>>

\* The insert returned a row, returned no data, or raised.
InsertReturn ==
    /\ pc = "insert_wait"
    /\ inflight' = {}
    /\ \E out \in {"row", "nodata", "raise"} : InsertOutcome(out)
    /\ UNCHANGED <<entry, documents, loaded, batch_size, i, batch, batches,
                   embedding, metadata, file, retval, test_id,
                   mainVars, searchVars, error>>

\* The summary is printed and (successful_inserts, failed_inserts) returned.
Summary ==
    /\ pc = "summary"
    /\ retval' = <<successful_inserts, failed_inserts>>
    /\ pc' = ReturnFromProcess
    /\ UNCHANGED <<entry, documents, loaded, batch_size, i, j, batch, batches,
                   successful_inserts, failed_inserts, embedding, metadata, file,
                   storeVars, mainVars, searchVars, inflight, log, error>>

\* main: search only when at least one product was inserted.
MainAfterProcess ==
    /\ pc = "process_returned"
    /\ IF retval[1] > 0
       THEN /\ search_args' = [match_count |-> MainMatchCount, filter |-> "None"]
            /\ pc' = "search_embed"
       ELSE /\ pc' = "done"
            /\ UNCHANGED search_args
    /\ UNCHANGED <<entry, procVars, storeVars, mainVars, rpc_params, inflight, log, error>>

\* ---- search_documents ----

SearchEmbedCall ==
    /\ pc = "search_embed"
    /\ Issue("embed_call", 0, NoEmbedding)
    /\ pc' = "search_embed_wait"
    /\ UNCHANGED <<entry, procVars, storeVars, mainVars, searchVars, error>>

SearchEmbedReturnSwallow ==
    /\ pc = "search_embed_wait"
    /\ inflight' = {}
    /\ \E ok \in BOOLEAN :
          IF ok
          THEN /\ embedding' = [src |-> 0, len |-> EmbDim]
               /\ log' = Append(log, Ev("embed_ok", 0, [src |-> 0, len |-> EmbDim]))
               /\ pc' = "search_rpc"
               /\ error' = error
          ELSE /\ log' = Append(log, Ev("embed_err", 0, NoEmbedding))
               /\ embedding' = NoEmbedding
               /\ pc' = "search_rpc"
               /\ error' = error
    /\ UNCHANGED <<entry, documents, loaded, batch_size, i, j, batch, batches,
                   successful_inserts, failed_inserts, metadata, file, retval,
                   storeVars, mainVars, searchVars>>

\* query_embedding = generate_embedding(query, openai_client); a failure is
\* printed and re-raised out of search_documents.
SearchEmbedReturn ==
    /\ pc = "search_embed_wait"
    /\ inflight' = {}
    /\ \E ok \in BOOLEAN :
          IF ok
          THEN /\ embedding' = [src |-> 0, len |-> EmbDim]
               /\ log' = Append(log, Ev("embed_ok", 0, [src |-> 0, len |-> EmbDim]))
               /\ pc' = "search_rpc"
               /\ error' = error
          ELSE /\ log' = Append(log, Ev("embed_err", 0, NoEmbedding))
               /\ Propagate("EmbeddingError")
               /\ UNCHANGED embedding
    /\ UNCHANGED <<entry, documents, loaded, batch_size, i, j, batch, batches,
                   successful_inserts, failed_inserts, metadata, file, retval,
                   storeVars, mainVars, searchVars>>

\* supabase.rpc("match_docs", {query_embedding, match_count, filter})
SearchRpcCall ==
    /\ pc = "search_rpc"
    /\ rpc_params' = [query_embedding |-> embedding,
                      match_count |-> match_count_of(search_args.match_count),
                      filter |-> filter_json(search_args.filter)]
    /\ Issue("rpc_call", 0, embedding)
    /\ pc' = "search_rpc_wait"
    /\ UNCHANGED <<entry, procVars, storeVars, mainVars, search_args, error>>

\* return result.data, or the failure is printed and re-raised.
SearchRpcReturn ==
    /\ pc = "search_rpc_wait"
    /\ inflight' = {}
    /\ \E ok \in BOOLEAN :
          IF ok
          THEN /\ log' = Append(log, Ev("rpc_ok", 0, NoEmbedding))
               /\ pc' = IF entry = "main" THEN "done" ELSE "returned"
               /\ error' = error
          ELSE /\ log' = Append(log, Ev("rpc_err", 0, NoEmbedding))
               /\ Propagate("RpcError")
    /\ UNCHANGED <<entry, procVars, storeVars, mainVars, searchVars>>

Next ==
    \/ MainStart
    \/ CallProcess
    \/ CallSearch
    \/ InitializeClients
    \/ CheckAndCreateTableCall
    \/ CheckAndCreateTableReturn
    \/ TestInsertCall
    \/ TestInsertReturn
    \/ TestDeleteCall
    \/ TestDeleteReturn
    \/ MainCallProcess
    \/ CheckTableStructureCall
    \/ CheckTableStructureReturn
    \/ LoadJsonFile
    \/ ForBatch
    \/ ForDoc
    \/ ExtractTextContent
    \/ GenerateEmbeddingCall
    \/ GenerateEmbeddingReturn
    \/ CreateMetadata
    \/ InsertCall
    \/ InsertReturn
    \/ Summary
    \/ MainAfterProcess
    \/ SearchEmbedCall
    \/ SearchEmbedReturn
    \/ SearchRpcCall
    \/ SearchRpcReturn

Spec == Init /\ [][Next]_vars

TypeOK ==
    /\ pc \in STRING
    /\ successful_inserts \in Nat
    /\ failed_inserts \in Nat
    /\ Cardinality(inflight) \in Nat

\* ---- vocabulary of the properties ----

N == Len(documents)

CeilDiv(n, b) == (n + b - 1) \div b

\* Positions of the log holding event e of record d.
Idx(e, d) == {n \in DOMAIN log : log[n].ev = e /\ log[n].doc = d}

Has(e, d) == Idx(e, d) # {}

\* Event e of record d is appended to the log by this step.
New(e, d) == \E n \in (Len(log) + 1)..Len(log') : log'[n].ev = e /\ log'[n].doc = d

RaiseEvs == {"extract_err", "embed_err", "meta_err", "insert_err"}

\* Some step of record k raised.
Raised(k) == \E e \in RaiseEvs : Has(e, k)

Attempts == SelectSeq(log, LAMBDA x : x.ev = "attempt")

\* process_and_insert_documents returned normally after loading the file.
ProcessReturned == retval # <<>> /\ loaded

AllLaterAttempted(k) == \A m \in (k + 1)..N : Has("attempt", m)

Max(S) == CHOOSE x \in S : \A y \in S : y <= x

Least(S) == CHOOSE x \in S : \A y \in S : x <= y

C2_FailureIsolation ==
    /\ [](\A k \in 1..N : Raised(k) =>
            /\ ~Has("insert_ok", k)
            /\ pc \notin {"raised", "done"} \/ retval # <<>>
            /\ ProcessReturned => AllLaterAttempted(k))
    /\ [][\A k \in 1..N : \A e \in RaiseEvs : New(e, k) =>
            /\ failed_inserts' = failed_inserts + 1
            /\ successful_inserts' = successful_inserts
            /\ error' = "none"]_vars

C2_Witness ==
    /\ ProcessReturned
    /\ N = 2
    /\ Has("meta_err", 1)
    /\ Has("insert_ok", 2)
    /\ retval = <<1, 1>>

\* ---- C3 ----
\* C3: an insert for record k is issued only after the extraction and the
\* embedding call of record k returned without error; no record gets more
\* than one embedding call or more than one insert call, and no row of a
\* record whose extraction or embedding failed is in the table.
C3_InsertOnlyAfterEmbedding ==
    \A k \in 1..N :
        /\ Cardinality(Idx("embed_call", k)) <= 1
        /\ Cardinality(Idx("insert_call", k)) <= 1
        /\ \A n \in Idx("insert_call", k) :
              /\ \E a \in Idx("extract_ok", k) : \E b \in Idx("embed_ok", k) : a < b /\ b < n
              /\ log[n].emb.len # 0
        /\ (Has("extract_err", k) \/ Has("embed_err", k)) =>
              /\ ~Has("insert_call", k)
              /\ \A r \in table : r.doc # k

C3_Witness ==
    /\ Has("embed_err", 1)
    /\ Has("insert_ok", 2)
    /\ table = {[id |-> 1, doc |-> 2, emb |-> [src |-> 2, len |-> EmbDim]]}

\* ---- C4 ----
\* C4 (as stated): every insert issued during a run, the connectivity-test
\* insert included, carries an embedding of the model's dimensionality.
C4_EveryInsertHasEmbedding ==
    /\ \A n \in DOMAIN log :
          log[n].ev \in {"insert_call", "test_insert_call"} => log[n].emb.len = EmbDim
    /\ \A r \in table : r.emb.len = EmbDim

\* C4 (amended): every insert issued by process_and_insert_documents carries
\* the embedding returned for that same record, of the model's
\* dimensionality, and so does every stored row of a record; the
\* connectivity-test insert carries no embedding.
C4_RecordInsertsHaveEmbedding ==
    /\ \A n \in DOMAIN log :
          /\ log[n].ev = "insert_call" => log[n].emb = [src |-> log[n].doc, len |-> EmbDim]
          /\ log[n].ev = "test_insert_call" => log[n].emb = NoEmbedding
    /\ \A r \in table :
          IF r.doc >= 1 THEN r.emb = [src |-> r.doc, len |-> EmbDim] ELSE r.emb = NoEmbedding

C4_Witness ==
    /\ entry = "main"
    /\ Has("test_insert_ok", 0)
    /\ \E r \in table : r.doc = 2 /\ r.emb.len = EmbDim

\* ---- C5 ----
\* C5: an insert that returns without exception and without row data adds
\* exactly 1 to failed_inserts, leaves successful_inserts alone, raises
\* nothing, stores nothing, and processing goes on with the next record.
C5_NoDataIsFailure ==
    /\ [](\A k \in 1..N : Has("insert_nodata", k) =>
            /\ ~Raised(k)
            /\ ~Has("insert_ok", k)
            /\ \A r \in table : r.doc # k
            /\ ProcessReturned => AllLaterAttempted(k))
    /\ [][\A k \in 1..N : New("insert_nodata", k) =>
            /\ failed_inserts' = failed_inserts + 1
            /\ successful_inserts' = successful_inserts
            /\ error' = "none"
            /\ pc' = "for_doc"]_vars

C5_Witness ==
    /\ ProcessReturned
    /\ Has("insert_nodata", 1)
    /\ Has("insert_ok", 2)
    /\ retval = <<1, 1>>

\* ---- C6 ----
\* The fatal startup errors of a run.
MissingConfig == entry = "main" /\ error = "ValueError" /\ file = NoFile

BadFile == error # "none" /\ file.kind \in {"missing", "invalid", "scalar"}

UnreachableAtStartup == ddlEmitted

UnreachableAtProcess == retval = <<0, 0>> /\ ~loaded

FatalStartup == MissingConfig \/ BadFile \/ UnreachableAtStartup \/ UnreachableAtProcess

Calls(evs) == {n \in DOMAIN log : log[n].ev \in evs}

\* C6 (as stated): in a run ended by a fatal startup error no embedding
\* request was sent and no insert was issued against the documents table.
C6_FatalMeansNoInsert ==
    FatalStartup => Calls({"embed_call", "insert_call", "test_insert_call"}) = {}

\* C6 (amended): in a run ended by a fatal startup error no embedding
\* request was sent, no record was inserted and the table holds no row of a
\* record; with a missing configuration value no remote call was made at
\* all; with the table unreachable at startup the only remote call is the
\* failed read, after which the DDL text is emitted; the only insert a run
\* of main can have issued before an invalid file or a failed second table
\* check is the single connectivity-test insert, and a direct call of
\* process_and_insert_documents has issued none.
C6_FatalMeansNoProcessing ==
    /\ FatalStartup =>
          /\ Calls({"embed_call", "insert_call", "rpc_call"}) = {}
          /\ \A r \in table : r.doc = 0
          /\ successful_inserts = 0 /\ failed_inserts = 0
    /\ (FatalStartup /\ entry = "process") => Calls({"test_insert_call"}) = {}
    /\ (BadFile /\ entry = "main") => Cardinality(Calls({"test_insert_call"})) = 1
    /\ MissingConfig => log = <<>>
    /\ UnreachableAtStartup =>
          /\ [n \in DOMAIN log |-> log[n].ev] = <<"select_call", "select_err">>
          /\ table = {}
          /\ pc = "done"

C6_Witness ==
    /\ entry = "main"
    /\ BadFile
    /\ pc = "done"
    /\ Has("test_insert_ok", 0)
    /\ Has("test_delete_ok", 0)

\* ---- C7 ----
BadNested(k) == k \in 1..N /\ documents[k] = "objectBadNested"

C8_SourceOrder ==
    /\ Cardinality(inflight) <= 1
    /\ \A a \in 1..N : \A b \in 1..N :
          (a < b /\ Has("insert_ok", a) /\ Has("insert_call", b)) =>
              /\ Max(Idx("insert_call", a)) < Max(Idx("insert_ok", a))
              /\ Max(Idx("insert_ok", a)) < Least(Idx("embed_call", b))
              /\ Least(Idx("embed_call", b)) < Least(Idx("insert_call", b))

C8_Witness ==
    /\ Has("insert_ok", 1)
    /\ Has("insert_ok", 2)
    /\ batches = 2
    /\ inflight = {}

\* ---- C9 ----
\* C9: match_docs is invoked only after the query embedding has been
\* returned, with that embedding, the limit (5 when omitted) and the filter
\* (the empty mapping when omitted); when the embedding call fails the
\* procedure is never invoked, and a failure of either call leaves
\* search_documents as an exception, never as a normal return.
C9_SearchOrder ==
    /\ \A n \in Idx("rpc_call", 0) :
          /\ \E m \in Idx("embed_ok", 0) : m < n
          /\ rpc_params.query_embedding = [src |-> 0, len |-> EmbDim]
          /\ log[n].emb = rpc_params.query_embedding
          /\ rpc_params.match_count =
                (IF search_args.match_count = Omitted THEN 5 ELSE search_args.match_count)
          /\ rpc_params.filter =
                (IF search_args.filter = "None" THEN "empty" ELSE search_args.filter)
    /\ Has("embed_err", 0) => ~Has("rpc_call", 0)
    /\ (Has("embed_err", 0) \/ Has("rpc_err", 0)) =>
          /\ error \in {"EmbeddingError", "RpcError"}
          /\ pc = (IF entry = "main" THEN "done" ELSE "raised")
    /\ (entry = "search" /\ pc = "returned") => Has("rpc_ok", 0)

C9_Witness ==
    /\ entry = "search"
    /\ pc = "raised"
    /\ Has("embed_err", 0)
    /\ search_args.match_count = Omitted

\* ---- C10 ----
TestReturned ==
    pc \notin {"test_simple_insert", "test_simple_insert_wait", "test_delete", "test_delete_wait"}

\* C10: whenever test_simple_insert has returned after its row was
\* inserted, that row has been deleted again, and when the real batch
\* begins the table holds the rows it held before the test.
C10_TestRowDeleted ==
    /\ (Has("test_insert_ok", 0) /\ TestReturned) => \A r \in table : r.id # test_id
    /\ (entry = "main" /\ pc = "check_table_structure") => table = {}
====
